---- MODULE Spec2Model ----
(***************************************************************************)
(* Threshold monitors of cm5-local-scripts: pct2075_safety.py,             *)
(* mcp9601_safety.py and ina219_safety.py.  One monitor process is         *)
(* modelled from its start (load_config) through the polling loop to its   *)
(* exit.  Floats are modelled as integers plus NaN; voltages are in        *)
(* millivolts; a battery percentage is kept as an exact fraction.          *)
(* ups_benchmark.py is modelled beside it: calculate_battery_percent, the  *)
(* WorkerPool, one burn worker and BenchmarkRunner.run.  The subsystems    *)
(* share no state, and each specification leaves the others idle.          *)
(***************************************************************************)
EXTENDS Integers, Sequences, FiniteSets, TLC

VARIABLES
    kind,                 \* SENSOR_NAME of the monitor process
    config,               \* content of /etc/gambit/safety-config.yaml
    pc,                   \* position of main()
    i2c_address,          \* locals of main() set while parsing
    warning_threshold,    \*   warning_temp / warning_percent
    shutdown_threshold,   \*   shutdown_temp / shutdown_percent
    poll_interval,
    cell_count,
    thermocouple_type,
    sensor,               \* "none" until the driver object exists
    consecutive_failures,
    warning_logged,
    exit_code,            \* -1 while the process runs
    cycle,                \* what the last loop iteration did (observation)
    shutdown_calls,       \* subprocess.run invocations so far (observation)
    run_fails,            \* failed reads since the last successful read
    run_criticals,        \* critical escalations since the last successful read
    warn_last,            \* last warning event logged: none / raised / cleared
    scenario,             \* scripted sensor readings and the actions they produced
    percent_call,         \* arguments and results of calculate_battery_percent
    max_workers,          \* WorkerPool.max_workers
    workers,              \* WorkerPool.workers: the processes, oldest first
    stop_events,          \* WorkerPool.stop_events: the event of each worker
    procs,                \* every process ever started: running / exited / terminated
    events_set,           \* the stop events that have been set
    pool_call,            \* the last WorkerPool call and what it did (observation)
    handlers,             \* the process has installed BenchmarkRunner's signal handlers
    runner,               \* BenchmarkRunner: position and locals of run()
    burn                  \* one burn worker seen from inside: position, stop event

vars == <<kind, config, pc, i2c_address, warning_threshold, shutdown_threshold,
          poll_interval, cell_count, thermocouple_type, sensor,
          consecutive_failures, warning_logged, exit_code, cycle,
          shutdown_calls, run_fails, run_criticals, warn_last, scenario,
          percent_call, max_workers, workers, stop_events, procs, events_set,
          pool_call, handlers, runner, burn>>

poolVars == <<max_workers, workers, stop_events, procs, events_set, pool_call,
              handlers>>
benchVars == <<percent_call, max_workers, workers, stop_events, procs,
               events_set, pool_call, handlers, runner, burn>>

----------------------------------------------------------------------------
(* Bounds of the model *)

MaxRun == 11            \* longest run of failed reads that is explored
MaxShutdownCalls == 2   \* shutdown commands attempted by one process

----------------------------------------------------------------------------
(* Program constants *)

MAX_CONSECUTIVE_FAILURES == 5
DEFAULT_CELL_COUNT == 3
MAX_CELL_COUNT == 6
CELL_VOLTAGE_FULL == 4200      \* mV per cell at 100%
CELL_VOLTAGE_EMPTY == 3000     \* mV per cell at 0%
VALID_THERMOCOUPLE_TYPES == {"K", "J", "T", "N", "S", "E", "B", "R"}
SensorNames == {"pct2075", "mcp9601", "ina219"}

----------------------------------------------------------------------------
(* Floats: an integer value or NaN.  Every comparison with NaN is false.   *)

F(x) == [nan |-> FALSE, v |-> x]
NaN == [nan |-> TRUE, v |-> 0]
FloatGE(a, b) == ~a.nan /\ ~b.nan /\ a.v >= b.v
FloatLE(a, b) == ~a.nan /\ ~b.nan /\ a.v <= b.v
FloatLT(a, b) == ~a.nan /\ ~b.nan /\ a.v < b.v

(* A raw YAML value: absent key, a number (or numeric string), NaN, or     *)
(* something float()/int() rejects (a word, null, a list).                 *)
Absent == [tag |-> "absent", v |-> 0]
Num(x) == [tag |-> "num", v |-> x]
RawNaN == [tag |-> "nan", v |-> 0]
Bad == [tag |-> "bad", v |-> 0]

----------------------------------------------------------------------------
(* Configuration files the process may find at start.                      *)

I2cRaw == {Absent, Num(72), Bad}
PollRaw == {Absent, Num(0), Num(-1), Bad}
CellRaw == {Absent, Num(0), Num(6), Num(7), Bad}
TcRaw == {"absent", "k", "X"}

WarningRaw(k) ==
    IF k = "ina219" THEN {Absent, Num(5), Num(3), RawNaN, Bad}
    ELSE {Absent, Num(80), Num(90), RawNaN, Bad}

ShutdownRaw(k) ==
    IF k = "ina219" THEN {Absent, RawNaN, Bad}
    ELSE IF k = "pct2075" THEN {Absent, RawNaN, Bad}
    ELSE {Absent, Num(80), RawNaN, Bad}

NoFields ==
    [i2c_address |-> Absent, warning |-> Absent, shutdown |-> Absent,
     poll_interval_s |-> Absent, battery_cell_count |-> Absent,
     thermocouple_type |-> "absent"]

(* file: the config file exists; section: the top-level key of the sensor  *)
(* is a mapping, is missing, or is present but not a mapping (null).       *)
Configs(k) ==
    {[file |-> FALSE, section |-> "missing", fields |-> NoFields],
     [file |-> TRUE, section |-> "missing", fields |-> NoFields],
     [file |-> TRUE, section |-> "not_mapping", fields |-> NoFields]}
    \cup
    {[file |-> TRUE, section |-> "mapping", fields |-> f] :
        f \in {g \in [i2c_address : I2cRaw, warning : WarningRaw(k),
                      shutdown : ShutdownRaw(k), poll_interval_s : PollRaw,
                      battery_cell_count : CellRaw, thermocouple_type : TcRaw] :
                 /\ (k # "ina219" => g.battery_cell_count = Absent)
                 /\ (k # "mcp9601" => g.thermocouple_type = "absent")}}

----------------------------------------------------------------------------
(* Parsing helpers.  Each returns [ok, val]; ok = FALSE is the ValueError. *)

parse_i2c_address(raw, default) ==
    CASE raw.tag = "absent" -> [ok |-> TRUE, val |-> default]
      [] raw.tag = "num" -> [ok |-> TRUE, val |-> raw.v]
      [] OTHER -> [ok |-> FALSE, val |-> 0]

(* Variant: an unparsable value silently replaced by the default. *)
_coerce_float_lenient(raw, default) ==
    CASE raw.tag = "num" -> [ok |-> TRUE, val |-> F(raw.v)]
      [] raw.tag = "nan" -> [ok |-> TRUE, val |-> NaN]
      [] OTHER -> [ok |-> TRUE, val |-> F(default)]

_coerce_float(raw, default) ==
    CASE raw.tag = "absent" -> [ok |-> TRUE, val |-> F(default)]
      [] raw.tag = "num" -> [ok |-> TRUE, val |-> F(raw.v)]
      [] raw.tag = "nan" -> [ok |-> TRUE, val |-> NaN]
      [] OTHER -> [ok |-> FALSE, val |-> NaN]

_coerce_int(raw, default) ==
    CASE raw.tag = "absent" -> [ok |-> TRUE, val |-> default]
      [] raw.tag = "num" -> [ok |-> TRUE, val |-> raw.v]
      [] OTHER -> [ok |-> FALSE, val |-> 0]

(* str(config.get("thermocouple_type", "K")).upper() *)
Upper(tc) ==
    CASE tc = "absent" -> "K"
      [] tc = "k" -> "K"
      [] OTHER -> tc

DefaultI2c(k) ==
    CASE k = "pct2075" -> 55 [] k = "mcp9601" -> 103 [] OTHER -> 65
DefaultWarning(k) ==
    CASE k = "pct2075" -> 70 [] k = "mcp9601" -> 60 [] OTHER -> 15
DefaultShutdown(k) ==
    CASE k = "pct2075" -> 80 [] k = "mcp9601" -> 75 [] OTHER -> 5
DefaultPoll(k) == IF k = "ina219" THEN 10 ELSE 5

----------------------------------------------------------------------------
(* Observation of one loop iteration.                                      *)

NoCycle ==
    [action |-> "NoCycle", read_ok |-> FALSE, hot_ok |-> FALSE,
     temperature |-> 0, ambient |-> 0, voltage |-> 0, current_ma |-> 0,
     cmd |-> "none", excepted |-> FALSE, critical |-> FALSE]

(* No scripted readings: the sensor returns what it likes. *)
NoScenario == [on |-> FALSE, script |-> <<>>, rest |-> <<>>, actions |-> <<>>]

(* The benchmark is not running. *)
NoPercentCall ==
    [done |-> FALSE, cells |-> 0, voltage |-> 0, voltage2 |-> 0,
     percent |-> [num |-> 0, den |-> 1], percent2 |-> [num |-> 0, den |-> 1]]
NoPoolCall ==
    [op |-> "none", prev |-> "none", requested |-> 0, returned |-> 0,
     before |-> <<>>, trace |-> <<>>]
(* No benchmark run: run() has not been called. *)
NoRunner ==
    [pc |-> "off",
     args |-> [profile |-> "stress", threshold |-> NaN, interval |-> NaN,
               cycle_duration |-> 0],
     running |-> TRUE, signal_at |-> "none", failed_before_sample |-> FALSE,
     reading |-> [ok |-> FALSE, voltage |-> 0, current_ma |-> 0],
     stop_reading |-> [ok |-> FALSE, voltage |-> 0, current_ma |-> 0],
     start_battery_pct |-> FALSE, first_sample |-> TRUE,
     level_idx |-> 0, elapsed_in_cycle |-> 0, target_load |-> 0, workers |-> 0,
     samples |-> <<>>, log |-> <<>>, stopped_by |-> "none", returned |-> -1]
(* No burn worker is followed from inside. *)
NoBurn == [at |-> "off", i |-> 0, is_set |-> FALSE, set_at |-> "none"]
PoolIdle ==
    /\ max_workers = 0
    /\ workers = <<>>
    /\ stop_events = <<>>
    /\ procs = <<>>
    /\ events_set = {}
    /\ pool_call = NoPoolCall
    /\ handlers = FALSE
BenchIdle ==
    /\ percent_call = NoPercentCall
    /\ PoolIdle
    /\ runner = NoRunner
    /\ burn = NoBurn

(* The locals of main() before it has run. *)
MonitorLocals ==
    /\ i2c_address = 0
    /\ warning_threshold = NaN
    /\ shutdown_threshold = NaN
    /\ poll_interval = NaN
    /\ cell_count = 0
    /\ thermocouple_type = ""
    /\ sensor = "none"
    /\ consecutive_failures = 0
    /\ warning_logged = FALSE
    /\ exit_code = -1
    /\ cycle = NoCycle
    /\ shutdown_calls = 0
    /\ run_fails = 0
    /\ run_criticals = 0
    /\ warn_last = "none"
MonitorStart ==
    /\ pc = "load_config"
    /\ MonitorLocals

(* No monitor is running: the state of the monitors in the specifications  *)
(* of the benchmark's functions.                                           *)
MonitorOff ==
    /\ kind = "ina219"
    /\ config = [file |-> FALSE, section |-> "mapping", fields |-> NoFields]
    /\ scenario = NoScenario
    /\ pc = "off"
    /\ MonitorLocals

monitorVars == <<kind, config, pc, i2c_address, warning_threshold,
                 shutdown_threshold, poll_interval, cell_count,
                 thermocouple_type, sensor, consecutive_failures,
                 warning_logged, exit_code, cycle, shutdown_calls, run_fails,
                 run_criticals, warn_last, scenario>>

Init ==
    /\ kind \in SensorNames
    /\ config \in Configs(kind)
    /\ scenario = NoScenario
    /\ BenchIdle
    /\ MonitorStart

(* sys.exit(code), or the interpreter ending on an uncaught exception. *)
Exit(code) ==
    /\ pc' = "exited"
    /\ exit_code' = code

loopVars == <<consecutive_failures, warning_logged, cycle, shutdown_calls,
              run_fails, run_criticals, warn_last, scenario>>
parsedVars == <<i2c_address, warning_threshold, shutdown_threshold,
                poll_interval, cell_count, thermocouple_type>>

(* load_config(): missing file or missing section is fatal. *)
load_config ==
    /\ pc = "load_config"
    /\ IF ~config.file \/ config.section = "missing"
       THEN Exit(1)
       ELSE pc' = "parse" /\ UNCHANGED exit_code
    /\ UNCHANGED <<kind, config, sensor>>
    /\ UNCHANGED benchVars
    /\ UNCHANGED parsedVars
    /\ UNCHANGED loopVars

(* main(): the try block that parses the fields.  A section that is not a  *)
(* mapping has no .get: the AttributeError is uncaught and ends the        *)
(* process with status 1.                                                  *)
ParseConfig ==
    /\ pc = "parse"
    /\ LET f == config.fields
           a == parse_i2c_address(f.i2c_address, DefaultI2c(kind))
           w == _coerce_float(f.warning, DefaultWarning(kind))
           s == _coerce_float(f.shutdown, DefaultShutdown(kind))
           p == _coerce_float(f.poll_interval_s, DefaultPoll(kind))
           c == IF kind = "ina219"
                THEN _coerce_int(f.battery_cell_count, DEFAULT_CELL_COUNT)
                ELSE [ok |-> TRUE, val |-> 0]
       IN  IF config.section = "not_mapping" \/ ~(a.ok /\ w.ok /\ s.ok /\ p.ok /\ c.ok)
           THEN Exit(1) /\ UNCHANGED parsedVars
           ELSE /\ i2c_address' = a.val
                /\ warning_threshold' = w.val
                /\ shutdown_threshold' = s.val
                /\ poll_interval' = p.val
                /\ cell_count' = c.val
                /\ thermocouple_type' =
                      IF kind = "mcp9601" THEN Upper(f.thermocouple_type) ELSE ""
                /\ pc' = "validate"
                /\ UNCHANGED exit_code
    /\ UNCHANGED <<kind, config, sensor>>
    /\ UNCHANGED benchVars
    /\ UNCHANGED loopVars

(* Variant: equal thresholds accepted. *)
ThresholdsMisordered_strict(k, w, s) ==
    IF k = "ina219" THEN FloatLT(w, s) ELSE FloatLT(s, w)

(* The threshold-ordering test of each monitor. *)
ThresholdsMisordered(k, w, s) ==
    IF k = "ina219" THEN FloatLE(w, s) ELSE FloatGE(w, s)

(* main(): "Validate configuration". *)
ValidateConfig ==
    /\ pc = "validate"
    /\ IF \/ ThresholdsMisordered(kind, warning_threshold, shutdown_threshold)
          \/ (kind = "ina219" /\ ~(1 <= cell_count /\ cell_count <= MAX_CELL_COUNT))
          \/ (kind = "mcp9601" /\ thermocouple_type \notin VALID_THERMOCOUPLE_TYPES)
       THEN Exit(1)
       ELSE pc' = "init_sensor" /\ UNCHANGED exit_code
    /\ UNCHANGED <<kind, config, sensor>>
    /\ UNCHANGED benchVars
    /\ UNCHANGED parsedVars
    /\ UNCHANGED loopVars

(* main(): "Initialize sensor"; any exception of the driver is fatal. *)
InitSensor ==
    /\ pc = "init_sensor"
    /\ \E ok \in BOOLEAN :
          IF ok
          THEN sensor' = "ready" /\ pc' = "loop" /\ UNCHANGED exit_code
          ELSE sensor' = "failed" /\ Exit(1)
    /\ UNCHANGED <<kind, config>>
    /\ UNCHANGED benchVars
    /\ UNCHANGED parsedVars
    /\ UNCHANGED loopVars


----------------------------------------------------------------------------
(* The polling loop.                                                       *)

Temperatures == {55, 60, 65, 70, 72, 74, 75, 80, 81}
AmbientTemperatures == {25, 90}
BusVoltages == {9000, 9140, 9180, 9500, 9540, 10800, 21600}
ShuntVoltages == {0, 4}
Currents == {-500, 0, 500}
CmdOutcomes == {"ok", "CalledProcessError", "OSError"}

(* The except-clause of the loop: count the failure, escalate at the       *)
(* ceiling and reset.                                                      *)
ExceptionHandler(failures) ==
    LET n == failures + 1
    IN  IF n >= MAX_CONSECUTIVE_FAILURES
        THEN [failures |-> 0, critical |-> TRUE]
        ELSE [failures |-> n, critical |-> FALSE]

(* time.sleep(poll_interval) at the end of an iteration: a negative or NaN *)
(* interval raises ValueError outside the try block and ends the process.  *)
SleepPollInterval ==
    IF FloatGE(poll_interval, F(0))
    THEN pc' = "loop" /\ UNCHANGED exit_code
    ELSE Exit(1)

(* Variant: the result is not clamped at 100. *)
calculate_battery_percent_no_ceiling(voltage, cells) ==
    LET voltage_full == CELL_VOLTAGE_FULL * cells
        voltage_empty == CELL_VOLTAGE_EMPTY * cells
        voltage_range == voltage_full - voltage_empty
        num == (voltage - voltage_empty) * 100
    IN  [num |-> IF num > 0 THEN num ELSE 0, den |-> voltage_range]

(* Variant: the voltage range of one cell used for the whole pack. *)
calculate_battery_percent_one_cell(voltage, cells) ==
    LET voltage_empty == CELL_VOLTAGE_EMPTY * cells
        voltage_range == CELL_VOLTAGE_FULL - CELL_VOLTAGE_EMPTY
        num == (voltage - voltage_empty) * 100
        top == 100 * voltage_range
        low == IF num < top THEN num ELSE top
    IN  [num |-> IF low > 0 THEN low ELSE 0, den |-> voltage_range]

(* calculate_battery_percent: linear interpolation between the empty and   *)
(* the full pack voltage, clamped to 0..100; the result is num/den.        *)
calculate_battery_percent(voltage, cells) ==
    LET voltage_full == CELL_VOLTAGE_FULL * cells
        voltage_empty == CELL_VOLTAGE_EMPTY * cells
        voltage_range == voltage_full - voltage_empty
        num == (voltage - voltage_empty) * 100
        top == 100 * voltage_range
        low == IF num < top THEN num ELSE top
    IN  [num |-> IF low > 0 THEN low ELSE 0, den |-> voltage_range]

PercentLE(p, threshold) == ~threshold.nan /\ p.num <= threshold.v * p.den

(* Variant: the latch is never set when the warning is logged. *)
WarningLatch_unlatched(in_zone, logged) ==
    IF in_zone
    THEN IF ~logged THEN [action |-> "WarnRaised", logged |-> logged]
                    ELSE [action |-> "None", logged |-> logged]
    ELSE IF logged THEN [action |-> "WarnCleared", logged |-> FALSE]
                   ELSE [action |-> "None", logged |-> logged]

(* Variant: leaving the zone is logged but the latch stays set. *)
WarningLatch_sticky(in_zone, logged) ==
    IF in_zone
    THEN IF ~logged THEN [action |-> "WarnRaised", logged |-> TRUE]
                    ELSE [action |-> "None", logged |-> logged]
    ELSE IF logged THEN [action |-> "WarnCleared", logged |-> logged]
                   ELSE [action |-> "None", logged |-> logged]

(* The warning latch shared by the three loops: in_zone is the warning     *)
(* condition of the monitor.                                               *)
WarningLatch(in_zone, logged) ==
    IF in_zone
    THEN IF ~logged THEN [action |-> "WarnRaised", logged |-> TRUE]
                    ELSE [action |-> "None", logged |-> logged]
    ELSE IF logged THEN [action |-> "WarnCleared", logged |-> FALSE]
                   ELSE [action |-> "None", logged |-> logged]

(* Variant: the shutdown test made strict. *)
pct2075_shutdown_strict(temperature) ==
    ~shutdown_threshold.nan /\ temperature > shutdown_threshold.v

(* Variant: the warning test made against the shutdown threshold. *)
pct2075_warning_wrong(temperature) == FloatGE(F(temperature), shutdown_threshold)

(* pct2075: the shutdown and the warning tests on the temperature. *)
pct2075_shutdown(temperature) == FloatGE(F(temperature), shutdown_threshold)
pct2075_warning(temperature) == FloatGE(F(temperature), warning_threshold)

(* Variant: the ambient temperature can trigger the shutdown too. *)
mcp9601_shutdown_any(hot_temp, ambient_temp) ==
    \/ FloatGE(F(hot_temp), shutdown_threshold)
    \/ FloatGE(F(ambient_temp), shutdown_threshold)

(* mcp9601: both tests use the hot junction only. *)
mcp9601_shutdown(hot_temp, ambient_temp) == FloatGE(F(hot_temp), shutdown_threshold)
mcp9601_warning(hot_temp, ambient_temp) == FloatGE(F(hot_temp), warning_threshold)

(* Variant: a zero current taken for charging. *)
is_charging_nonneg(current_ma) == current_ma >= 0

(* Variant: the warning test without the charging gate. *)
ina219_warning_ungated(battery_percent, current_ma) ==
    PercentLE(battery_percent, warning_threshold)

(* ina219: is_charging and the two discharging-only tests. *)
is_charging(current_ma) == current_ma > 0
ina219_shutdown(battery_percent, current_ma) ==
    ~is_charging(current_ma) /\ PercentLE(battery_percent, shutdown_threshold)
ina219_warning(battery_percent, current_ma) ==
    ~is_charging(current_ma) /\ PercentLE(battery_percent, warning_threshold)

(* Variant: a failed read drops the warning latch. *)
ReadFailed_clears(obs) ==
    /\ run_fails < MaxRun
    /\ LET e == ExceptionHandler(consecutive_failures)
       IN  /\ consecutive_failures' = e.failures
           /\ cycle' = [obs EXCEPT !.action = "ReadFailed", !.excepted = TRUE,
                                   !.critical = e.critical]
           /\ run_criticals' = run_criticals + (IF e.critical THEN 1 ELSE 0)
    /\ run_fails' = run_fails + 1
    /\ warning_logged' = FALSE
    /\ UNCHANGED <<shutdown_calls, warn_last>>
    /\ SleepPollInterval

(* An iteration whose sensor read raised. *)
ReadFailed(obs) ==
    /\ run_fails < MaxRun
    /\ LET e == ExceptionHandler(consecutive_failures)
       IN  /\ consecutive_failures' = e.failures
           /\ cycle' = [obs EXCEPT !.action = "ReadFailed", !.excepted = TRUE,
                                   !.critical = e.critical]
           /\ run_criticals' = run_criticals + (IF e.critical THEN 1 ELSE 0)
    /\ run_fails' = run_fails + 1
    /\ UNCHANGED <<warning_logged, shutdown_calls, warn_last>>
    /\ SleepPollInterval

(* Variant: the shutdown iteration logs the warning first. *)
trigger_shutdown_warns(obs) ==
    /\ shutdown_calls < MaxShutdownCalls
    /\ shutdown_calls' = shutdown_calls + 1
    /\ \E cmd \in CmdOutcomes :
          IF cmd = "OSError"
          THEN LET e == ExceptionHandler(0)
               IN  /\ consecutive_failures' = e.failures
                   /\ cycle' = [obs EXCEPT !.action = "Shutdown", !.cmd = cmd,
                                           !.excepted = TRUE,
                                           !.critical = e.critical]
                   /\ SleepPollInterval
          ELSE /\ consecutive_failures' = 0
               /\ cycle' = [obs EXCEPT !.action = "Shutdown", !.cmd = cmd]
               /\ pc' = "shutdown_wait"
               /\ UNCHANGED exit_code
    /\ warning_logged' = TRUE
    /\ warn_last' = "raised"

(* trigger_shutdown(reason) followed by time.sleep(70); sys.exit(1).       *)
(* subprocess.run either succeeds, raises CalledProcessError (caught and   *)
(* logged in trigger_shutdown) or raises OSError because the command       *)
(* cannot be run; the OSError reaches the except-clause of the loop.       *)
trigger_shutdown(obs) ==
    /\ shutdown_calls < MaxShutdownCalls
    /\ shutdown_calls' = shutdown_calls + 1
    /\ \E cmd \in CmdOutcomes :
          IF cmd = "OSError"
          THEN LET e == ExceptionHandler(0)
               IN  /\ consecutive_failures' = e.failures
                   /\ cycle' = [obs EXCEPT !.action = "Shutdown", !.cmd = cmd,
                                           !.excepted = TRUE,
                                           !.critical = e.critical]
                   /\ SleepPollInterval
          ELSE /\ consecutive_failures' = 0
               /\ cycle' = [obs EXCEPT !.action = "Shutdown", !.cmd = cmd]
               /\ pc' = "shutdown_wait"
               /\ UNCHANGED exit_code
    /\ UNCHANGED <<warning_logged, warn_last>>

(* A successful read below the shutdown condition. *)
Evaluated(obs, in_zone) ==
    LET r == WarningLatch(in_zone, warning_logged)
    IN  /\ consecutive_failures' = 0
        /\ warning_logged' = r.logged
        /\ cycle' = [obs EXCEPT !.action = r.action]
        /\ warn_last' = CASE r.action = "WarnRaised" -> "raised"
                          [] r.action = "WarnCleared" -> "cleared"
                          [] OTHER -> warn_last
        /\ UNCHANGED shutdown_calls
        /\ SleepPollInterval

(* Scripted readings: the next successful read returns the head of the    *)
(* script, and the action of the iteration is appended to the record.      *)
ScriptAllows(obs) ==
    scenario.on => (scenario.rest # <<>> /\ Head(scenario.rest) = obs)
ScriptRecord ==
    scenario' = IF scenario.on
                THEN [scenario EXCEPT !.rest = Tail(@),
                                      !.actions = Append(@, cycle'.action)]
                ELSE scenario

(* One iteration of the loop of pct2075_safety.main. *)
pct2075_cycle ==
    /\ kind = "pct2075" /\ pc = "loop"
    /\ \/ ReadFailed(NoCycle) /\ UNCHANGED scenario
       \/ \E temperature \in Temperatures :
             LET obs == [NoCycle EXCEPT !.read_ok = TRUE, !.temperature = temperature]
             IN  /\ ScriptAllows(obs)
                 /\ run_fails' = 0 /\ run_criticals' = 0
                 /\ IF pct2075_shutdown(temperature)
                    THEN trigger_shutdown(obs)
                    ELSE Evaluated(obs, pct2075_warning(temperature))
                 /\ ScriptRecord
    /\ UNCHANGED <<kind, config, sensor>>
    /\ UNCHANGED benchVars
    /\ UNCHANGED parsedVars

(* One iteration of the loop of mcp9601_safety.main: the hot junction is   *)
(* read first, then the ambient temperature; either read may raise.        *)
mcp9601_cycle ==
    /\ kind = "mcp9601" /\ pc = "loop"
    /\ \/ ReadFailed(NoCycle) /\ UNCHANGED scenario
       \/ \E hot_temp \in Temperatures :
             /\ ReadFailed([NoCycle EXCEPT !.hot_ok = TRUE, !.temperature = hot_temp])
             /\ UNCHANGED scenario
       \/ \E hot_temp \in Temperatures, ambient_temp \in AmbientTemperatures :
             LET obs == [NoCycle EXCEPT !.read_ok = TRUE, !.hot_ok = TRUE,
                                        !.temperature = hot_temp,
                                        !.ambient = ambient_temp]
             IN  /\ ScriptAllows(obs)
                 /\ run_fails' = 0 /\ run_criticals' = 0
                 /\ IF mcp9601_shutdown(hot_temp, ambient_temp)
                    THEN trigger_shutdown(obs)
                    ELSE Evaluated(obs, mcp9601_warning(hot_temp, ambient_temp))
                 /\ ScriptRecord
    /\ UNCHANGED <<kind, config, sensor>>
    /\ UNCHANGED benchVars
    /\ UNCHANGED parsedVars

(* One iteration of the loop of ina219_safety.main. *)
ina219_cycle ==
    /\ kind = "ina219" /\ pc = "loop"
    /\ \/ ReadFailed(NoCycle) /\ UNCHANGED scenario
       \/ \E bus_voltage \in BusVoltages, shunt_voltage \in ShuntVoltages,
             current_ma \in Currents :
             LET voltage == bus_voltage + shunt_voltage
                 battery_percent == calculate_battery_percent(voltage, cell_count)
                 obs == [NoCycle EXCEPT !.read_ok = TRUE, !.voltage = voltage,
                                        !.current_ma = current_ma]
             IN  /\ ScriptAllows(obs)
                 /\ run_fails' = 0 /\ run_criticals' = 0
                 /\ IF ina219_shutdown(battery_percent, current_ma)
                    THEN trigger_shutdown(obs)
                    ELSE Evaluated(obs, ina219_warning(battery_percent, current_ma))
                 /\ ScriptRecord
    /\ UNCHANGED <<kind, config, sensor>>
    /\ UNCHANGED benchVars
    /\ UNCHANGED parsedVars

(* time.sleep(70); sys.exit(1) after trigger_shutdown returned. *)
ShutdownWaitExit ==
    /\ pc = "shutdown_wait"
    /\ Exit(1)
    /\ UNCHANGED <<kind, config, sensor>>
    /\ UNCHANGED benchVars
    /\ UNCHANGED parsedVars
    /\ UNCHANGED loopVars

Next ==
    \/ load_config
    \/ ParseConfig
    \/ ValidateConfig
    \/ InitSensor
    \/ pct2075_cycle
    \/ mcp9601_cycle
    \/ ina219_cycle
    \/ ShutdownWaitExit

Spec == Init /\ [][Next]_vars

----------------------------------------------------------------------------
(* Scripted runs: a monitor with the default configuration whose           *)
(* successful reads return a given sequence of readings.  Failed reads may *)
(* occur between them.                                                     *)

ScriptTemperatures == {65, 72, 74, 81}
ScriptVoltages == {10800, 9504, 9144}       \* 50%, 14% and 4% of a 3S pack
ScriptCurrents == {-500, 500}

TemperatureReading(k, t, a) ==
    [NoCycle EXCEPT !.read_ok = TRUE, !.hot_ok = (k = "mcp9601"),
                    !.temperature = t, !.ambient = a]
BatteryReading(v, i) ==
    [NoCycle EXCEPT !.read_ok = TRUE, !.voltage = v, !.current_ma = i]

Scripts(k) ==
    CASE k = "pct2075" ->
           {[n \in 1..4 |-> TemperatureReading(k, t[n], 0)] :
                t \in [1..4 -> ScriptTemperatures]}
      [] k = "mcp9601" ->
           {[n \in 1..4 |-> TemperatureReading(k, t[n], a)] :
                t \in [1..4 -> ScriptTemperatures], a \in AmbientTemperatures}
      [] OTHER ->
           {[n \in 1..3 |-> BatteryReading(v[n], i[n])] :
                v \in [1..3 -> ScriptVoltages], i \in [1..3 -> ScriptCurrents]}

ScenarioInit ==
    /\ kind \in SensorNames
    /\ config = [file |-> TRUE, section |-> "mapping", fields |-> NoFields]
    /\ \E sc \in Scripts(kind) :
          scenario = [on |-> TRUE, script |-> sc, rest |-> sc, actions |-> <<>>]
    /\ BenchIdle
    /\ MonitorStart

ScenarioSpec == ScenarioInit /\ [][Next]_vars

----------------------------------------------------------------------------
(* calculate_battery_percent as a function: the cell count and two         *)
(* voltages (mV) are drawn in the initial state, the call computes the     *)
(* percentage of each.                                                     *)

MaxVoltageSteps == 43

PercentVoltages == {600 * n : n \in -1..MaxVoltageSteps}

PercentInit ==
    /\ MonitorOff
    /\ PoolIdle
    /\ runner = NoRunner
    /\ burn = NoBurn
    /\ \E cells \in 1..MAX_CELL_COUNT, v \in PercentVoltages, w \in PercentVoltages :
           percent_call = [NoPercentCall EXCEPT !.cells = cells, !.voltage = v,
                                                !.voltage2 = w]

PercentCall ==
    /\ pc = "off"
    /\ percent_call.cells > 0
    /\ ~percent_call.done
    /\ percent_call' =
           [percent_call EXCEPT
               !.done = TRUE,
               !.percent = calculate_battery_percent(percent_call.voltage,
                                                     percent_call.cells),
               !.percent2 = calculate_battery_percent(percent_call.voltage2,
                                                      percent_call.cells)]
    /\ UNCHANGED <<monitorVars, poolVars, runner, burn>>

PercentNext == PercentCall

PercentSpec == PercentInit /\ [][PercentNext]_vars

----------------------------------------------------------------------------
(* WorkerPool.  A process is named by its index in procs, a stop event by  *)
(* the process it was created for.  A call is one step; pool_call.trace    *)
(* lists, in order, what the call did to which process: start, set (its    *)
(* stop event), join, terminate.                                           *)

MaxCpu == 3
MaxProcs == 4

Requests == -1..(MaxCpu + 1)

(* join(timeout=2.0) ends with the worker exited, or still alive and then  *)
(* terminated.                                                             *)
StopOutcomes == {"exited", "terminated"}

Range(seq) == {seq[n] : n \in DOMAIN seq}

PoolInit ==
    /\ MonitorOff
    /\ percent_call = NoPercentCall
    /\ runner = NoRunner
    /\ burn = NoBurn
    /\ handlers \in BOOLEAN
    /\ max_workers \in 1..MaxCpu
    /\ workers = <<>>
    /\ stop_events = <<>>
    /\ procs = <<>>
    /\ events_set = {}
    /\ pool_call = NoPoolCall

(* Variant: the count is not limited to max_workers. *)
clamp_count_unlimited(count) == IF count > 0 THEN count ELSE 0

(* count = max(0, min(count, self.max_workers)) *)
clamp_count(count) ==
    LET low == IF count < max_workers THEN count ELSE max_workers
    IN  IF low > 0 THEN low ELSE 0

(* Variant: a call at the current count starts one more worker. *)
to_start_again(count, current) ==
    IF count >= current THEN count - current + 1 ELSE 0

(* Variant: a scale-down stops every worker of the pool. *)
to_stop_all(count, current) == IF count < current THEN current ELSE 0

(* The number of workers the call starts and the number it stops. *)
to_start(count, current) == IF count > current THEN count - current ELSE 0
to_stop(count, current) == IF count < current THEN current - count ELSE 0

Op(name, pid) == [op |-> name, id |-> pid]

(* worker.join(timeout=2.0); if worker.is_alive(): worker.terminate() *)
JoinOne(pid, outcome) ==
    <<Op("join", pid)>> \o
    (IF outcome = "terminated" THEN <<Op("terminate", pid)>> ELSE <<>>)

(* shutdown: the loop over self.workers. *)
RECURSIVE JoinEach(_, _)
JoinEach(pids, outcome) ==
    IF pids = <<>> THEN <<>>
    ELSE JoinOne(Head(pids), outcome[Head(pids)]) \o JoinEach(Tail(pids), outcome)

(* Variant: the scale-down sets every stop event first, as shutdown does. *)
StopEach_all_at_once(pids, outcome) ==
    [n \in DOMAIN pids |-> Op("set", pids[n])] \o JoinEach(pids, outcome)

(* set_worker_count: the loop that stops the excess workers. *)
RECURSIVE StopEach(_, _)
StopEach(pids, outcome) ==
    IF pids = <<>> THEN <<>>
    ELSE <<Op("set", Head(pids))>> \o JoinOne(Head(pids), outcome[Head(pids)])
         \o StopEach(Tail(pids), outcome)

(* worker.terminate() sends SIGTERM.  A worker forked after                *)
(* setup_signal_handlers has inherited the handler, which only sets a flag *)
(* in the worker's copy of the runner: that worker keeps running.          *)
terminate == IF handlers THEN "running" ELSE "terminated"

Stopped(stopped, outcome) ==
    [pid \in DOMAIN procs |->
        IF pid \in stopped
        THEN IF outcome[pid] = "terminated" THEN terminate ELSE outcome[pid]
        ELSE procs[pid]]

set_worker_count(requested) ==
    LET count == clamp_count(requested)
        current == Len(workers)
        starts == to_start(count, current)
        stops == to_stop(count, current)
        started == [n \in 1..starts |-> Len(procs) + n]
        popped == [n \in 1..stops |-> workers[current + 1 - n]]
        kept == SubSeq(workers, 1, current - stops)
    IN  /\ Len(procs) + starts <= MaxProcs
        /\ \E outcome \in [Range(popped) -> StopOutcomes] :
              /\ procs' = Stopped(Range(popped), outcome) \o
                             [n \in 1..starts |-> "running"]
              /\ workers' = kept \o started
              /\ stop_events' = SubSeq(stop_events, 1, current - stops) \o started
              /\ events_set' = events_set \cup Range(popped)
              /\ pool_call' =
                     [op |-> "set_worker_count", prev |-> pool_call.op,
                      requested |-> requested, returned |-> Len(workers'),
                      before |-> workers,
                      trace |-> [n \in 1..starts |-> Op("start", started[n])]
                                \o StopEach(popped, outcome)]

(* Variant: the list of stop events is not cleared. *)
shutdown_keeps_events ==
    /\ \E outcome \in [Range(workers) -> StopOutcomes] :
          /\ procs' = Stopped(Range(workers), outcome)
          /\ events_set' = events_set \cup Range(stop_events)
          /\ pool_call' =
                 [op |-> "shutdown", prev |-> pool_call.op, requested |-> 0,
                  returned |-> 0, before |-> workers,
                  trace |-> [n \in DOMAIN stop_events |-> Op("set", stop_events[n])]
                            \o JoinEach(workers, outcome)]
    /\ workers' = <<>>
    /\ UNCHANGED stop_events

shutdown ==
    /\ \E outcome \in [Range(workers) -> StopOutcomes] :
          /\ procs' = Stopped(Range(workers), outcome)
          /\ events_set' = events_set \cup Range(stop_events)
          /\ pool_call' =
                 [op |-> "shutdown", prev |-> pool_call.op, requested |-> 0,
                  returned |-> 0, before |-> workers,
                  trace |-> [n \in DOMAIN stop_events |-> Op("set", stop_events[n])]
                            \o JoinEach(workers, outcome)]
    /\ workers' = <<>>
    /\ stop_events' = <<>>

(* cpu_stress_worker: a worker whose stop event is set leaves its loop at  *)
(* the end of the batch in progress, and the process ends.                 *)
cpu_stress_worker(pid) ==
    /\ procs[pid] = "running"
    /\ pid \in events_set
    /\ procs' = [procs EXCEPT ![pid] = "exited"]
    /\ UNCHANGED <<workers, stop_events, events_set, pool_call>>

(* The pool used on its own, as the tests use it. *)
PoolUsed == pc = "off" /\ runner.pc = "off" /\ max_workers > 0
poolFrame == <<monitorVars, percent_call, max_workers, handlers, runner, burn>>

CallSetWorkerCount ==
    /\ PoolUsed
    /\ \E requested \in Requests : set_worker_count(requested)
    /\ UNCHANGED poolFrame

CallShutdown ==
    /\ PoolUsed
    /\ shutdown
    /\ UNCHANGED poolFrame

WorkerEnds ==
    /\ PoolUsed
    /\ \E pid \in DOMAIN procs : cpu_stress_worker(pid)
    /\ UNCHANGED poolFrame

PoolNext ==
    \/ CallSetWorkerCount
    \/ CallShutdown
    \/ WorkerEnds

PoolSpec == PoolInit /\ [][PoolNext]_vars

----------------------------------------------------------------------------
(* One burn worker seen from inside: cpu_stress_worker running in its      *)
(* process while the pool, in the parent process, sets the stop event at   *)
(* any moment.  burn.i counts the iterations of the batch made so far;     *)
(* the value x the loop computes is read by nobody and is left out.        *)
(* burn.set_at records where the worker was when the event was set.        *)

BATCH_ITERATIONS == 100000

WorkerInit ==
    /\ MonitorOff
    /\ percent_call = NoPercentCall
    /\ PoolIdle
    /\ runner = NoRunner
    /\ burn = [NoBurn EXCEPT !.at = "while"]

workerFrame == <<monitorVars, percent_call, poolVars, runner>>

(* while not stop_event.is_set(): the only place the event is read. *)
burn_while ==
    /\ burn.at = "while"
    /\ burn' = IF burn.is_set
               THEN [burn EXCEPT !.at = "returned"]
               ELSE [burn EXCEPT !.at = "for", !.i = 0]
    /\ UNCHANGED workerFrame

(* Variant: the event is looked at in the batch too. *)
burn_for_watching ==
    /\ burn.at = "for"
    /\ \/ \E n \in {burn.i + 1, BATCH_ITERATIONS} :
             burn' = [burn EXCEPT !.i = n,
                                  !.at = IF n = BATCH_ITERATIONS THEN "while"
                                         ELSE "for"]
       \/ burn.is_set /\ burn' = [burn EXCEPT !.at = "returned"]
    /\ UNCHANGED workerFrame

(* for _ in range(100000): x = ...  A step is one iteration, or the rest   *)
(* of the batch made without anything else happening meanwhile; after the  *)
(* last iteration the worker is back at the while test.                    *)
burn_for ==
    /\ burn.at = "for"
    /\ \E n \in {burn.i + 1, BATCH_ITERATIONS} :
          burn' = [burn EXCEPT !.i = n,
                               !.at = IF n = BATCH_ITERATIONS THEN "while"
                                      ELSE "for"]
    /\ UNCHANGED workerFrame

(* stop_event.set() by the pool, in the parent process. *)
stop_event_set ==
    /\ burn.at \in {"while", "for"}
    /\ ~burn.is_set
    /\ burn' = [burn EXCEPT !.is_set = TRUE, !.set_at = burn.at]
    /\ UNCHANGED workerFrame

WorkerNext ==
    \/ burn_while
    \/ burn_for
    \/ stop_event_set

(* The worker is a process of its own: it keeps running. *)
WorkerSpec ==
    WorkerInit /\ [][WorkerNext]_vars /\ WF_vars(burn_while) /\ WF_vars(burn_for)

----------------------------------------------------------------------------
(* BenchmarkRunner.run.  Time is counted in ticks since cycle_start, up to *)
(* cycle_duration.  The CSV file is not modelled: a recorded sample is a   *)
(* row appended to runner.samples.                                         *)

MaxSamples == 2
MaxCores == 2

load_levels == <<100, 75, 50, 25, 0>>

(* Readings: 50% discharging; 8% discharging, at no current, charging. *)
BenchReadings ==
    {[ok |-> TRUE, voltage |-> 10800, current_ma |-> -500],
     [ok |-> TRUE, voltage |-> 9096, current_ma |-> -500],
     [ok |-> TRUE, voltage |-> 9096, current_ma |-> 0],
     [ok |-> TRUE, voltage |-> 9096, current_ma |-> 500]}
Ticks == {1, 2}
BenchArgs ==
    [profile : {"stress", "cyclic"}, threshold : {F(10), NaN},
     interval : {F(1), F(-1)}, cycle_duration : {0, 2}]

BenchInit ==
    /\ MonitorOff
    /\ percent_call = NoPercentCall
    /\ handlers = FALSE
    /\ max_workers \in 1..MaxCores
    /\ workers = <<>>
    /\ stop_events = <<>>
    /\ procs = <<>>
    /\ events_set = {}
    /\ pool_call = NoPoolCall
    /\ burn = NoBurn
    /\ \E args \in BenchArgs :
           runner = [NoRunner EXCEPT !.pc = "run", !.args = args]

NoReading == [ok |-> FALSE, voltage |-> 0, current_ma |-> 0]

runFrame == <<monitorVars, percent_call, max_workers, burn>>
poolState == <<workers, stop_events, procs, events_set, pool_call>>

(* time.sleep raises ValueError for a negative or NaN interval. *)
SleepRaises == runner.args.interval.nan \/ runner.args.interval.v < 0

(* The ticks since cycle_start, d ticks after they were elapsed. *)
Later(elapsed, d) ==
    IF elapsed + d < runner.args.cycle_duration
    THEN elapsed + d
    ELSE IF runner.args.cycle_duration > 0 THEN runner.args.cycle_duration
         ELSE 0

(* time.sleep(self.args.interval) at the end of an iteration of runner r:  *)
(* the exception leaves the loop, otherwise the loop goes on later.        *)
Slept(r) ==
    IF SleepRaises
    THEN {[r EXCEPT !.pc = "finally", !.stopped_by = "exception"]}
    ELSE IF r.args.profile = "cyclic"
         THEN {[r EXCEPT !.pc = "loop",
                         !.elapsed_in_cycle = Later(r.elapsed_in_cycle, d)] :
                  d \in Ticks}
         ELSE {[r EXCEPT !.pc = "loop"]}

(* threshold >= initial_pct *)
ThresholdNotBelow(battery_pct) ==
    /\ ~runner.args.threshold.nan
    /\ runner.args.threshold.v * battery_pct.den >= battery_pct.num

(* Variant: the charging flag of the reading is ignored. *)
threshold_reached_ungated(reading, battery_pct) ==
    PercentLE(battery_pct, runner.args.threshold)

(* not reading["charging"] and battery_pct <= self.args.threshold *)
threshold_reached(reading, battery_pct) ==
    /\ ~(reading.current_ma > 0)
    /\ PercentLE(battery_pct, runner.args.threshold)

(* setup_signal_handlers, then sensor.initialize(). *)
run_initialize ==
    /\ runner.pc = "run"
    /\ handlers' = TRUE
    /\ \E ok \in BOOLEAN :
          runner' = IF ok
                    THEN [runner EXCEPT !.pc = "initial"]
                    ELSE [runner EXCEPT !.pc = "returned", !.returned = 1,
                                        !.stopped_by = "init_failed"]
    /\ UNCHANGED <<runFrame, poolState>>

(* Variant: a threshold that is not below the initial percent is accepted. *)
run_initial_reading_unchecked ==
    /\ runner.pc = "initial"
    /\ \/ runner' = [runner EXCEPT !.pc = "returned", !.returned = 1,
                                   !.stopped_by = "initial_read_failed"]
       \/ \E initial \in BenchReadings :
             runner' = [runner EXCEPT !.pc = "profile", !.reading = initial]
    /\ UNCHANGED <<runFrame, poolState, handlers>>

(* The initial reading and the validation of the threshold. *)
run_initial_reading ==
    /\ runner.pc = "initial"
    /\ \/ runner' = [runner EXCEPT !.pc = "returned", !.returned = 1,
                                   !.stopped_by = "initial_read_failed"]
       \/ \E initial \in BenchReadings :
             LET initial_pct == calculate_battery_percent(initial.voltage,
                                                          DEFAULT_CELL_COUNT)
             IN  runner' =
                   IF ThresholdNotBelow(initial_pct)
                   THEN [runner EXCEPT !.pc = "returned", !.returned = 1,
                                       !.stopped_by = "threshold_invalid",
                                       !.reading = initial]
                   ELSE [runner EXCEPT !.pc = "profile", !.reading = initial]
    /\ UNCHANGED <<runFrame, poolState, handlers>>

(* Variant: the stress profile starts no worker. *)
run_profile_unsized ==
    /\ runner.pc = "profile"
    /\ runner' = IF runner.args.profile = "stress"
                 THEN [runner EXCEPT !.pc = "loop", !.target_load = 100,
                                     !.reading = NoReading]
                 ELSE [runner EXCEPT !.pc = "loop", !.level_idx = 0,
                                     !.elapsed_in_cycle = 0,
                                     !.first_sample = TRUE,
                                     !.reading = NoReading]
    /\ UNCHANGED poolState
    /\ UNCHANGED <<runFrame, handlers>>

(* The statements of run_stress and run_cyclic before the loop. *)
run_profile ==
    /\ runner.pc = "profile"
    /\ IF runner.args.profile = "stress"
       THEN /\ set_worker_count(max_workers)
            /\ runner' = [runner EXCEPT !.pc = "loop", !.target_load = 100,
                                        !.workers = pool_call'.returned,
                                        !.reading = NoReading]
       ELSE /\ runner' = [runner EXCEPT !.pc = "loop", !.level_idx = 0,
                                        !.elapsed_in_cycle = 0,
                                        !.first_sample = TRUE,
                                        !.reading = NoReading]
            /\ UNCHANGED poolState
    /\ UNCHANGED <<runFrame, handlers>>

(* Variant: the next level skips one. *)
next_level_skipping(level_idx) == (level_idx + 2) % Len(load_levels)

(* level_idx = (level_idx + 1) % len(load_levels) *)
next_level(level_idx) == (level_idx + 1) % Len(load_levels)

(* int(self.cpu_count * target_load / 100) *)
target_workers(target_load) == (max_workers * target_load) \div 100

(* The top of an iteration: the test of self.running, in the cyclic        *)
(* profile the level and the sizing call, then the read; a failed read     *)
(* sleeps and continues.                                                   *)
loop_read ==
    /\ runner.pc = "loop"
    /\ IF ~runner.running
       THEN /\ runner' = [runner EXCEPT !.pc = "finally", !.stopped_by = "signal"]
            /\ UNCHANGED poolState
       ELSE LET cyclic == runner.args.profile = "cyclic"
                switch == cyclic /\
                          runner.elapsed_in_cycle >= runner.args.cycle_duration
                level_idx == IF switch THEN next_level(runner.level_idx)
                             ELSE runner.level_idx
                target_load == IF cyclic THEN load_levels[level_idx + 1]
                               ELSE runner.target_load
            IN  /\ IF cyclic
                   THEN set_worker_count(target_workers(target_load))
                   ELSE UNCHANGED poolState
                /\ LET r == [runner EXCEPT
                                !.level_idx = level_idx,
                                !.elapsed_in_cycle = IF switch THEN 0 ELSE @,
                                !.target_load = target_load,
                                !.workers = IF cyclic THEN pool_call'.returned
                                            ELSE @]
                   IN  \/ runner' \in Slept([r EXCEPT
                                               !.failed_before_sample =
                                                   @ \/ r.samples = <<>>])
                       \/ \E reading \in BenchReadings :
                             runner' = [r EXCEPT !.pc = "sample",
                                                 !.reading = reading]
    /\ UNCHANGED <<runFrame, handlers>>

(* Variant: every sample is annotated. *)
notes_always(first) == "test_start"

(* The annotation of a sample. *)
notes(first) == IF first THEN "test_start" ELSE ""

(* The rest of an iteration whose read succeeded: the sample is written,   *)
(* the threshold is tested, the loop sleeps.                               *)
loop_record ==
    /\ runner.pc = "sample"
    /\ Len(runner.samples) < MaxSamples
    /\ LET reading == runner.reading
           battery_pct == calculate_battery_percent(reading.voltage,
                                                    DEFAULT_CELL_COUNT)
           first == IF runner.args.profile = "stress"
                    THEN ~runner.start_battery_pct
                    ELSE runner.first_sample
           row == [target_load |-> runner.target_load, workers |-> runner.workers,
                   notes |-> notes(first)]
           r == [runner EXCEPT
                   !.samples = Append(@, row),
                   !.start_battery_pct = IF first THEN TRUE ELSE @,
                   !.first_sample = IF runner.args.profile = "cyclic"
                                    THEN FALSE ELSE @,
                   !.reading = NoReading]
       IN  IF threshold_reached(reading, battery_pct)
           THEN runner' = [r EXCEPT !.pc = "finally", !.stopped_by = "threshold",
                                    !.stop_reading = reading]
           ELSE runner' \in Slept(r)
    /\ UNCHANGED <<runFrame, poolState, handlers>>

(* Variant: the summary is printed while the workers still run. *)
run_finally_shutdown_skipped ==
    /\ runner.pc = "finally"
    /\ runner' = [runner EXCEPT !.pc = "summary"]
    /\ UNCHANGED <<runFrame, poolState, handlers>>

(* finally: self.worker_pool.shutdown() *)
run_finally_shutdown ==
    /\ runner.pc = "finally"
    /\ shutdown
    /\ runner' = [runner EXCEPT !.pc = "summary", !.log = Append(@, "shutdown")]
    /\ UNCHANGED <<runFrame, handlers>>

(* Variant: a run interrupted by a signal returns 1. *)
run_finally_summary_signal_fails ==
    /\ runner.pc = "summary"
    /\ runner' = [runner EXCEPT
                       !.log = Append(@, "summary"),
                       !.pc = IF runner.stopped_by = "exception"
                              THEN "raised" ELSE "returned",
                       !.returned = IF runner.stopped_by = "exception" THEN @
                                    ELSE IF runner.stopped_by = "signal" THEN 1
                                    ELSE 0]
    /\ UNCHANGED <<runFrame, poolState, handlers>>

(* finally: print_summary(), the file is closed; then                      *)
(* return 0, or the exception of the loop goes on to the caller.           *)
run_finally_summary ==
    /\ runner.pc = "summary"
    /\ runner' = [runner EXCEPT
                       !.log = Append(@, "summary"),
                       !.pc = IF runner.stopped_by = "exception"
                              THEN "raised" ELSE "returned",
                       !.returned = IF runner.stopped_by = "exception" THEN @
                                    ELSE 0]
    /\ UNCHANGED <<runFrame, poolState, handlers>>

(* Variant: the handler abandons the sample in progress. *)
handler_cancelling ==
    /\ handlers
    /\ runner.pc \in {"initial", "profile", "loop", "sample", "finally", "summary"}
    /\ runner.running
    /\ runner' = [runner EXCEPT !.running = FALSE, !.signal_at = runner.pc,
                                !.pc = IF @ = "sample" THEN "loop" ELSE @]
    /\ UNCHANGED <<runFrame, poolState, handlers>>

(* SIGINT or SIGTERM once the handlers are installed: self.running = False *)
handler ==
    /\ handlers
    /\ runner.pc \in {"initial", "profile", "loop", "sample", "finally", "summary"}
    /\ runner.running
    /\ runner' = [runner EXCEPT !.running = FALSE, !.signal_at = runner.pc]
    /\ UNCHANGED <<runFrame, poolState, handlers>>

(* A worker of the run that has seen its stop event ends. *)
RunWorkerEnds ==
    /\ runner.pc # "off"
    /\ \E pid \in DOMAIN procs : cpu_stress_worker(pid)
    /\ UNCHANGED <<runFrame, handlers, runner>>

BenchNext ==
    \/ run_initialize
    \/ run_initial_reading
    \/ run_profile
    \/ loop_read
    \/ loop_record
    \/ run_finally_shutdown
    \/ run_finally_summary
    \/ handler
    \/ RunWorkerEnds

BenchSpec == BenchInit /\ [][BenchNext]_vars

----------------------------------------------------------------------------
(* The two readers of the INA219: a process is either the battery monitor  *)
(* or a benchmark run.                                                     *)

BatteryInit ==
    \/ Init /\ kind = "ina219"
    \/ BenchInit

BatteryNext ==
    \/ load_config
    \/ ParseConfig
    \/ ValidateConfig
    \/ InitSensor
    \/ ina219_cycle
    \/ ShutdownWaitExit
    \/ BenchNext

BatterySpec == BatteryInit /\ [][BatteryNext]_vars

TypeOK ==
    /\ kind \in SensorNames
    /\ pc \in {"load_config", "parse", "validate", "init_sensor", "loop",
               "shutdown_wait", "exited", "off"}
    /\ consecutive_failures \in 0..MAX_CONSECUTIVE_FAILURES
    /\ warning_logged \in BOOLEAN
    /\ exit_code \in {-1, 0, 1}
    /\ shutdown_calls \in 0..MaxShutdownCalls
    /\ run_fails \in 0..MaxRun

----------------------------------------------------------------------------
(* Properties.                                                             *)

TemperatureMonitors == {"pct2075", "mcp9601"}

(* The warning zone of the reading observed in iteration c. *)
InWarningZone(c) ==
    IF kind = "ina219"
    THEN /\ ~(c.current_ma > 0)
         /\ PercentLE(calculate_battery_percent(c.voltage, cell_count),
                      warning_threshold)
    ELSE FloatGE(F(c.temperature), warning_threshold)

(* C1: in the temperature monitors an iteration whose read succeeded emits *)
(* Shutdown exactly when the temperature is >= shutdown_temp_c, whatever   *)
(* warning_logged and consecutive_failures were.                           *)
C1_ShutdownAtThreshold ==
    (kind \in TemperatureMonitors /\ cycle.read_ok) =>
        (cycle.action = "Shutdown" <=>
            (~shutdown_threshold.nan /\ cycle.temperature >= shutdown_threshold.v))

C1_Witness ==
    /\ kind \in TemperatureMonitors
    /\ cycle.read_ok
    /\ cycle.action = "Shutdown"
    /\ cycle.temperature = shutdown_threshold.v
    /\ warning_logged

(* C2: in the battery monitor Shutdown is emitted exactly in the           *)
(* iterations whose read succeeded with current_ma <= 0 and percent <=     *)
(* shutdown_battery_percent; never while current_ma > 0, even at 0%.       *)
C2_ChargingGate ==
    (kind = "ina219" /\ cycle.action # "NoCycle") =>
        (cycle.action = "Shutdown" <=>
            /\ cycle.read_ok
            /\ ~(cycle.current_ma > 0)
            /\ PercentLE(calculate_battery_percent(cycle.voltage, cell_count),
                         shutdown_threshold))

C2_Witness ==
    /\ kind = "ina219"
    /\ cycle.read_ok
    /\ cycle.current_ma > 0
    /\ calculate_battery_percent(cycle.voltage, cell_count).num = 0
    /\ cycle.action # "Shutdown"

(* C3: a failed read never requests a shutdown, and in a run of failed     *)
(* reads the critical escalation is logged exactly at the 5th, 10th, ...   *)
(* failed read, leaving consecutive_failures at 0.                         *)
C3_EscalationEveryFifthFailure ==
    /\ cycle.action = "ReadFailed" => cycle.cmd = "none"
    /\ cycle.critical <=>
           (cycle.action = "ReadFailed" /\ run_fails > 0 /\ run_fails % 5 = 0)
    /\ cycle.critical => consecutive_failures = 0
    /\ run_criticals = run_fails \div 5

C5_ShutdownIsFinal ==
    cycle.action = "Shutdown" =>
        /\ pc \in {"shutdown_wait", "exited"}
        /\ shutdown_calls = 1
        /\ (pc = "exited" => exit_code = 1)

(* C6: when the shutdown request cannot be issued the monitor does not     *)
(* retry it and still takes the wait-and-exit path with exit code 1.       *)
C6_FailedRequestStillExits ==
    cycle.cmd \in {"CalledProcessError", "OSError"} =>
        /\ pc \in {"shutdown_wait", "exited"}
        /\ ~cycle.excepted
        /\ (pc = "exited" => exit_code = 1)

(* C7: at every iteration boundary consecutive_failures is in 0..4, is 0   *)
(* after a successful read and is the length of the current run of failed  *)
(* reads modulo 5 after a failed one.                                      *)
C7_FailureCounter ==
    /\ consecutive_failures \in 0..(MAX_CONSECUTIVE_FAILURES - 1)
    /\ cycle.action = "NoCycle" => consecutive_failures = 0
    /\ cycle.read_ok => consecutive_failures = 0
    /\ cycle.action = "ReadFailed" =>
           consecutive_failures = run_fails % MAX_CONSECUTIVE_FAILURES

(* C8: a failed read changes neither warning_logged nor the last warning   *)
(* event, and when reads resume in the warning zone after failures with    *)
(* the warning active, nothing is logged and the warning stays active.     *)
C8_FailureKeepsWarning ==
    [][/\ (pc = "loop" /\ cycle'.action = "ReadFailed") =>
              (warning_logged' = warning_logged /\ warn_last' = warn_last)
       /\ (/\ pc = "loop" /\ cycle.action = "ReadFailed" /\ warn_last = "raised"
           /\ cycle'.read_ok /\ cycle'.action # "Shutdown"
           /\ InWarningZone(cycle')) =>
              (cycle'.action = "None" /\ warning_logged')]_vars

C8_Witness ==
    /\ cycle.action = "ReadFailed"
    /\ run_fails >= 2
    /\ warning_logged
    /\ warn_last = "raised"

(* The thresholds of the file parse and the warning one is not strictly    *)
(* more conservative than the shutdown one.                                *)
ConfigMisordered ==
    /\ config.file /\ config.section = "mapping"
    /\ LET f == config.fields
           w == IF f.warning.tag = "absent" THEN DefaultWarning(kind) ELSE f.warning.v
           s == IF f.shutdown.tag = "absent" THEN DefaultShutdown(kind) ELSE f.shutdown.v
       IN  /\ f.warning.tag \in {"absent", "num"}
           /\ f.shutdown.tag \in {"absent", "num"}
           /\ IF kind = "ina219" THEN w <= s ELSE w >= s

NotStarted ==
    /\ sensor = "none"
    /\ cycle = NoCycle
    /\ shutdown_calls = 0
    /\ pc \in {"load_config", "parse", "validate", "exited"}
    /\ (pc = "exited" => exit_code = 1)

(* C9: a configuration whose warning threshold is not strictly more        *)
(* conservative than its shutdown threshold never reaches the sensor       *)
(* initialisation or the loop; the process exits with code 1.              *)
C9_MisorderedRejected == ConfigMisordered => NotStarted

C9_Witness ==
    /\ ConfigMisordered
    /\ warning_threshold = shutdown_threshold
    /\ ~warning_threshold.nan
    /\ pc = "exited"
    /\ exit_code = 1

(* A configuration error of the taxonomy. *)
ConfigError ==
    \/ ~config.file
    \/ config.section = "missing"
    \/ /\ config.section = "mapping"
       /\ LET f == config.fields
          IN  \/ f.i2c_address.tag = "bad"
              \/ f.warning.tag = "bad"
              \/ f.shutdown.tag = "bad"
              \/ f.poll_interval_s.tag = "bad"
              \/ /\ kind = "ina219"
                 /\ \/ f.battery_cell_count.tag = "bad"
                    \/ /\ f.battery_cell_count.tag = "num"
                       /\ f.battery_cell_count.v \notin 1..6
              \/ /\ kind = "mcp9601"
                 /\ f.thermocouple_type \notin
                        {"absent", "k", "K", "J", "T", "N", "S", "E", "B", "R"}

(* C10: every configuration error is fatal at startup: exit code 1, no     *)
(* sensor initialisation, no read, no shutdown request.                    *)
C10_ConfigErrorsFatal == ConfigError => NotStarted

C10_Witness ==
    /\ ConfigError
    /\ config.file /\ config.section = "mapping"
    /\ config.fields.poll_interval_s = Bad
    /\ pc = "exited"
    /\ exit_code = 1

(* C11: the process never exits with code 0, and it exits only from the    *)
(* startup (before any iteration) or after a shutdown was triggered and    *)
(* trigger_shutdown returned.                                              *)
C11_ExitsOnlyWithOne ==
    pc = "exited" =>
        /\ exit_code = 1
        /\ \/ cycle.action = "NoCycle"
           \/ (cycle.action = "Shutdown" /\ ~cycle.excepted)

(* C12: a started loop stops polling only in an iteration that emitted     *)
(* Shutdown.                                                               *)
C12_LoopEndsOnlyByShutdown ==
    [][(pc = "loop" /\ pc' # "loop") => cycle'.action = "Shutdown"]_vars

IsPrefix(a, b) == Len(a) <= Len(b) /\ a = SubSeq(b, 1, Len(a))

ScriptIs(k, field, values) ==
    /\ kind = k
    /\ scenario.on
    /\ Len(scenario.script) = Len(values)
    /\ \A n \in 1..Len(values) : scenario.script[n][field] = values[n]

(* C13: temperature monitor, warning 70 and shutdown 80, from the initial  *)
(* state: the successful readings 65, 72, 74, 81 produce the actions       *)
(* None, WarnRaised, None, Shutdown, in this order.                        *)
C13_TemperatureScenario ==
    ScriptIs("pct2075", "temperature", <<65, 72, 74, 81>>) =>
        /\ pc \in {"load_config", "parse"} \/
              (warning_threshold.v = 70 /\ shutdown_threshold.v = 80)
        /\ IsPrefix(scenario.actions, <<"None", "WarnRaised", "None", "Shutdown">>)
        /\ Len(scenario.actions) + Len(scenario.rest) = 4

C13_Witness ==
    /\ ScriptIs("pct2075", "temperature", <<65, 72, 74, 81>>)
    /\ scenario.actions = <<"None", "WarnRaised", "None", "Shutdown">>

(* C14: battery monitor, 3 cells, warning 15% and shutdown 5%, discharging *)
(* on every read: the voltages of 50%, 14% and 4% produce the actions      *)
(* None, WarnRaised, Shutdown.                                             *)
C14_DischargingScenario ==
    (/\ ScriptIs("ina219", "voltage", <<10800, 9504, 9144>>)
     /\ ScriptIs("ina219", "current_ma", <<-500, -500, -500>>)) =>
        /\ pc \in {"load_config", "parse"} \/
              (cell_count = 3 /\ warning_threshold.v = 15 /\ shutdown_threshold.v = 5)
        /\ IsPrefix(scenario.actions, <<"None", "WarnRaised", "Shutdown">>)
        /\ Len(scenario.actions) + Len(scenario.rest) = 3

C14_Witness ==
    /\ ScriptIs("ina219", "voltage", <<10800, 9504, 9144>>)
    /\ ScriptIs("ina219", "current_ma", <<-500, -500, -500>>)
    /\ scenario.actions = <<"None", "WarnRaised", "Shutdown">>

ChargingScript ==
    /\ ScriptIs("ina219", "voltage", <<10800, 9504, 9144>>)
    /\ ScriptIs("ina219", "current_ma", <<500, 500, 500>>)

C16_AmbientNotUsed ==
    [][(kind = "mcp9601" /\ pc = "loop" /\ cycle'.read_ok) =>
          \A a \in AmbientTemperatures :
              LET hot == cycle'.temperature
                  sd == mcp9601_shutdown(hot, a)
                  r == WarningLatch(mcp9601_warning(hot, a), warning_logged)
              IN  /\ cycle'.action = IF sd THEN "Shutdown" ELSE r.action
                  /\ warning_logged' = IF sd THEN warning_logged ELSE r.logged]_vars

C16_Witness ==
    /\ kind = "mcp9601"
    /\ cycle.read_ok
    /\ ~shutdown_threshold.nan /\ ~warning_threshold.nan
    /\ cycle.ambient >= shutdown_threshold.v
    /\ cycle.temperature < warning_threshold.v
    /\ cycle.action = "None"

(* C17: calculate_battery_percent(v, c) for c in 1..6 lies in [0, 100], is *)
(* 0 at and below the empty voltage 3.0*c, is 100 at and above the full    *)
(* voltage 4.2*c, and is non-decreasing in v.                              *)
C17_PercentContract ==
    percent_call.done =>
        LET c == percent_call.cells
            v == percent_call.voltage
            w == percent_call.voltage2
            p == percent_call.percent
            q == percent_call.percent2
        IN  /\ p.den > 0 /\ q.den > 0
            /\ 0 <= p.num /\ p.num <= 100 * p.den
            /\ (v <= CELL_VOLTAGE_EMPTY * c => p.num = 0)
            /\ (v >= CELL_VOLTAGE_FULL * c => p.num = 100 * p.den)
            /\ p.den = q.den
            /\ (v <= w => p.num <= q.num)

C17_Witness ==
    /\ percent_call.done
    /\ percent_call.cells = MAX_CELL_COUNT
    /\ percent_call.voltage = CELL_VOLTAGE_EMPTY * MAX_CELL_COUNT
    /\ percent_call.voltage2 = CELL_VOLTAGE_FULL * MAX_CELL_COUNT
    /\ percent_call.percent.num = 0
    /\ percent_call.percent2.num = 100 * percent_call.percent2.den

Min(a, b) == IF a < b THEN a ELSE b
Max(a, b) == IF a > b THEN a ELSE b

Running(pids) == \A pid \in pids : procs[pid] = "running" /\ pid \notin events_set

(* C18: set_worker_count(requested) returns min(max(0, requested),         *)
(* max_workers) whatever the request and the pool were, and the pool then  *)
(* holds exactly that many workers, each running with its own stop event.  *)
C18_ReturnsClampedCount ==
    pool_call.op = "set_worker_count" =>
        /\ pool_call.returned = Min(Max(0, pool_call.requested), max_workers)
        /\ Len(workers) = pool_call.returned
        /\ stop_events = workers
        /\ Cardinality(Range(workers)) = Len(workers)
        /\ Running(Range(workers))

C18_Witness ==
    /\ pool_call.op = "set_worker_count"
    /\ pool_call.requested > max_workers
    /\ pool_call.before # <<>>
    /\ Len(pool_call.before) < max_workers
    /\ pool_call.returned = max_workers

(* C19: a set_worker_count call whose request clamps to the current count  *)
(* starts no worker, stops no worker and leaves the pool as it was (a step *)
(* that changes pool_call is a call; a repeated call that records the same *)
(* pool_call is one that did nothing).                                     *)
C19_Idempotent ==
    [][(pool_call' # pool_call /\ pool_call'.op = "set_worker_count" /\
        Min(Max(0, pool_call'.requested), max_workers) = Len(workers)) =>
           /\ pool_call'.trace = <<>>
           /\ workers' = workers
           /\ stop_events' = stop_events
           /\ procs' = procs
           /\ events_set' = events_set]_vars

C19_Witness ==
    /\ pool_call.op = "set_worker_count"
    /\ pool_call.prev = "set_worker_count"
    /\ pool_call.before = workers
    /\ workers # <<>>
    /\ pool_call.trace = <<>>

(* C20: shutdown leaves no worker and no stop event in the pool, having   *)
(* set the stop event of every worker it held; on an empty pool it does    *)
(* nothing; set_worker_count after a shutdown works as on a new pool.      *)
C20_ShutdownEmptiesPool ==
    /\ pool_call.op = "shutdown" =>
          /\ workers = <<>>
          /\ stop_events = <<>>
          /\ Range(pool_call.before) \subseteq events_set
          /\ (pool_call.before = <<>> => pool_call.trace = <<>>)
    /\ (pool_call.op = "shutdown" /\ pool_call.prev = "shutdown") =>
          pool_call.before = <<>>
    /\ (pool_call.op = "set_worker_count" /\ pool_call.prev = "shutdown") =>
          /\ pool_call.before = <<>>
          /\ pool_call.returned = Min(Max(0, pool_call.requested), max_workers)
          /\ Len(workers) = pool_call.returned
          /\ stop_events = workers
          /\ Running(Range(workers))

C20_Witness ==
    /\ pool_call.op = "shutdown"
    /\ pool_call.prev = "shutdown"
    /\ procs # <<>>
    /\ workers = <<>>
    /\ stop_events = <<>>
    /\ pool_call.trace = <<>>

(* The burn workers that are alive. *)
LiveWorkers == {pid \in DOMAIN procs : procs[pid] = "running"}

(* C21: from a set_worker_count call to the next pool call the number of   *)
(* live burn workers is the value the call returned, the pool's list has   *)
(* that length and one stop event per worker, and the value is in          *)
(* 0..max_workers.                                                         *)
C21_LiveCountIsReturned ==
    pool_call.op = "set_worker_count" =>
        /\ Cardinality(LiveWorkers) = pool_call.returned
        /\ Len(workers) = pool_call.returned
        /\ stop_events = workers
        /\ pool_call.returned \in 0..max_workers

(* C22: a worker that the pool has removed has had its stop event set and  *)
(* is not running any more; after shutdown no worker is running.           *)
C22_NoWorkerOutlivesPool ==
    /\ \A pid \in DOMAIN procs :
          pid \notin Range(workers) => (pid \in events_set /\ procs[pid] # "running")
    /\ pool_call.op = "shutdown" => LiveWorkers = {}

LoopEnded == runner.stopped_by \in {"threshold", "signal", "exception"}

(* C23: on every way the profile loop ends (threshold, signal, exception)  *)
(* the pool has been shut down before the summary is printed and before    *)
(* run returns or passes the exception on.                                 *)
C23_ShutdownBeforeReturn ==
    (LoopEnded /\ runner.pc \in {"summary", "returned", "raised"}) =>
        /\ pool_call.op = "shutdown"
        /\ workers = <<>> /\ stop_events = <<>>
        /\ runner.log[1] = "shutdown"
        /\ (runner.pc # "summary" => runner.log = <<"shutdown", "summary">>)

C23_Witness ==
    /\ runner.pc = "raised"
    /\ runner.stopped_by = "exception"
    /\ pool_call.before # <<>>
    /\ runner.log = <<"shutdown", "summary">>

(* The stop condition of a reading, written out. *)
AtThresholdDischarging(reading) ==
    /\ reading.current_ma <= 0
    /\ PercentLE(calculate_battery_percent(reading.voltage, DEFAULT_CELL_COUNT),
                 runner.args.threshold)

(* C24: the loop ends on the battery condition exactly in the iterations   *)
(* whose sample has percent <= threshold with current_ma <= 0; a sample    *)
(* read while charging never ends it.                                      *)
C24_StopsAtThresholdDischarging ==
    [][/\ (runner.pc = "sample" /\ runner'.pc # "sample") =>
             (runner'.stopped_by = "threshold" <=>
                  AtThresholdDischarging(runner.reading))
       /\ (runner.stopped_by # "threshold" /\ runner'.stopped_by = "threshold") =>
             runner.pc = "sample"]_vars

C24_Witness ==
    /\ runner.stopped_by = "threshold"
    /\ runner.pc = "returned"
    /\ Len(runner.samples) = 2

(* C25: a signal only clears runner.running; the sample in progress is     *)
(* still recorded; at the next test at the top of the loop the loop ends   *)
(* with no further read, sizing call or sample; a run ended that way       *)
(* shuts the pool down, prints the summary and returns 0.                  *)
C25_SignalOnlySetsFlag ==
    [][/\ (runner.running /\ ~runner'.running) =>
             /\ [runner' EXCEPT !.running = TRUE, !.signal_at = "none"] = runner
             /\ UNCHANGED poolState
       /\ (runner.pc = "sample" /\ runner'.pc # "sample") =>
             Len(runner'.samples) = Len(runner.samples) + 1
       /\ (runner.pc = "loop" /\ ~runner.running /\ runner' # runner) =>
             /\ runner'.pc = "finally" /\ runner'.stopped_by = "signal"
             /\ runner'.samples = runner.samples
             /\ UNCHANGED poolState
       /\ runner'.stopped_by = "signal" =>
             /\ runner'.pc \in {"finally", "summary", "returned"}
             /\ (runner'.pc = "returned" =>
                    /\ runner'.returned = 0
                    /\ runner'.log = <<"shutdown", "summary">>
                    /\ workers' = <<>>)]_vars

C25_Witness ==
    /\ runner.signal_at = "sample"
    /\ runner.stopped_by = "signal"
    /\ runner.pc = "returned"
    /\ runner.returned = 0
    /\ Len(runner.samples) = 1

(* threshold >= percent of the initial reading, written out. *)
InitialNotAboveThreshold ==
    /\ runner.reading.ok
    /\ ~runner.args.threshold.nan
    /\ LET p == calculate_battery_percent(runner.reading.voltage, DEFAULT_CELL_COUNT)
       IN  runner.args.threshold.v * p.den >= p.num

(* C26: when the threshold is not strictly below the percent of the        *)
(* initial reading, run returns 1 at once: no worker was started, no       *)
(* sample taken; and the profile is only entered with threshold below.     *)
C26_ThresholdValidated ==
    /\ (runner.pc \in {"profile", "returned"} /\ runner.reading.ok
           /\ InitialNotAboveThreshold) =>
          /\ runner.pc = "returned"
          /\ runner.returned = 1
          /\ procs = <<>> /\ pool_call.op = "none"
          /\ runner.samples = <<>>
    /\ runner.stopped_by = "threshold_invalid" => InitialNotAboveThreshold

C26_Witness ==
    /\ runner.stopped_by = "threshold_invalid"
    /\ runner.returned = 1
    /\ InitialNotAboveThreshold
    /\ procs = <<>>

StartupFailed ==
    runner.stopped_by \in {"init_failed", "initial_read_failed", "threshold_invalid"}

(* C27: run returns 1 exactly after a failed sensor initialisation, a      *)
(* failed initial read or a failed threshold validation, and 0 in every    *)
(* other run that returns (threshold reached, signal), failed reads in     *)
(* the loop or not.                                                        *)
C27_ReturnCodes ==
    /\ runner.pc = "returned" =>
          /\ runner.returned \in {0, 1}
          /\ (runner.returned = 1 <=> StartupFailed)
          /\ (runner.returned = 0 <=> runner.stopped_by \in {"threshold", "signal"})
          /\ (StartupFailed => procs = <<>> /\ runner.samples = <<>> /\ runner.log = <<>>)
    /\ runner.pc # "returned" => runner.returned = -1

C27_Witness ==
    /\ runner.pc = "returned"
    /\ runner.returned = 0
    /\ runner.stopped_by = "threshold"
    /\ runner.failed_before_sample

LevelOrder == <<100, 75, 50, 25, 0>>

(* C28: the cyclic profile enters its loop at level 100; the level only    *)
(* changes to the next of 100, 75, 50, 25, 0 (then 100 again), and only    *)
(* when cycle_duration has elapsed since the last change; a sample is      *)
(* taken with floor(max_workers * level / 100) workers in the pool.        *)
C28_CyclicLadder ==
    [][runner.args.profile = "cyclic" =>
          /\ (runner.pc = "profile" /\ runner'.pc = "loop") =>
                (runner'.level_idx = 0 /\ LevelOrder[runner'.level_idx + 1] = 100)
          /\ runner'.level_idx # runner.level_idx =>
                /\ runner'.level_idx = (runner.level_idx + 1) % 5
                /\ runner.elapsed_in_cycle >= runner.args.cycle_duration
          /\ (runner.pc = "loop" /\ runner.running /\ runner'.running
                 /\ runner' # runner) =>
                LET level == LevelOrder[runner'.level_idx + 1]
                IN  /\ runner'.target_load = level
                    /\ pool_call'.op = "set_worker_count"
                    /\ Len(workers') = (max_workers * level) \div 100
                    /\ runner'.workers = Len(workers')]_vars

C28_Witness ==
    /\ runner.args.profile = "cyclic"
    /\ runner.args.cycle_duration > 0
    /\ runner.pc = "sample"
    /\ runner.samples # <<>>
    /\ runner.samples[1].target_load = 0
    /\ runner.level_idx = 0
    /\ Len(workers) = max_workers

(* C29: in the stress profile the only pool call before the loop ends is   *)
(* one set_worker_count(max_workers), made before the first sample; every  *)
(* sample is recorded with target load 100 and max_workers workers.        *)
C29_StressSizedOnce ==
    runner.args.profile = "stress" =>
        /\ runner.pc \in {"run", "initial", "profile"} =>
              (pool_call.op = "none" /\ runner.samples = <<>>)
        /\ runner.pc \in {"loop", "sample", "finally"} =>
              /\ pool_call.op = "set_worker_count"
              /\ pool_call.prev = "none"
              /\ pool_call.requested = max_workers
              /\ Len(workers) = max_workers
        /\ \A n \in DOMAIN runner.samples :
              /\ runner.samples[n].target_load = 100
              /\ runner.samples[n].workers = max_workers

C29_Witness ==
    /\ runner.args.profile = "stress"
    /\ runner.pc = "loop"
    /\ Len(runner.samples) = 2
    /\ max_workers = 2

(* C30: the first recorded sample of a run carries the annotation          *)
(* test_start, whether or not reads failed before it, and no later sample  *)
(* carries it.                                                             *)
C30_TestStartOnce ==
    \A n \in DOMAIN runner.samples :
        runner.samples[n].notes = IF n = 1 THEN "test_start" ELSE ""

C30_Witness ==
    /\ runner.failed_before_sample
    /\ Len(runner.samples) = 2
    /\ runner.samples[1].notes = "test_start"
    /\ runner.samples[2].notes = ""

(* The processes started and the stop events set by a step. *)
StartedBy(before, after) == {pid \in DOMAIN after : pid \notin DOMAIN before}
TraceOps(trace, names) == {n \in DOMAIN trace : trace[n].op \in names}

(* C31: a set_worker_count call whose clamped target is above the current  *)
(* count starts exactly (target - current) workers and stops none; one     *)
(* whose target is below it stops exactly (current - target) workers and   *)
(* starts none; in both cases the workers that remain are the processes    *)
(* that were in the pool before, in the same order, untouched.             *)
C31_SpawnsOrStopsTheDifference ==
    [][(pool_call' # pool_call /\ pool_call'.op = "set_worker_count") =>
          LET target == Min(Max(0, pool_call'.requested), max_workers)
              current == Len(workers)
              started == StartedBy(procs, procs')
              signalled == events_set' \ events_set
              untouched(pids) ==
                  \A pid \in pids : /\ procs'[pid] = procs[pid]
                                    /\ (pid \in events_set' <=> pid \in events_set)
          IN  /\ target > current =>
                    /\ Cardinality(started) = target - current
                    /\ Cardinality(TraceOps(pool_call'.trace, {"start"})) =
                           target - current
                    /\ signalled = {}
                    /\ TraceOps(pool_call'.trace, {"set", "join", "terminate"}) = {}
                    /\ SubSeq(workers', 1, current) = workers
                    /\ Range(SubSeq(workers', current + 1, target)) = started
                    /\ untouched(DOMAIN procs)
              /\ target < current =>
                    /\ started = {}
                    /\ TraceOps(pool_call'.trace, {"start"}) = {}
                    /\ Cardinality(signalled) = current - target
                    /\ Cardinality(TraceOps(pool_call'.trace, {"set"})) =
                           current - target
                    /\ signalled = Range(workers) \ Range(workers')
                    /\ workers' = SubSeq(workers, 1, target)
                    /\ untouched(DOMAIN procs \ signalled)]_vars

(* test_scale_down_workers and test_scale_up_workers: 3 -> 1, 1 -> 3. *)
C31_Witness ==
    /\ pool_call.op = "set_worker_count"
    /\ pool_call.prev = "set_worker_count"
    /\ \/ (Len(pool_call.before) = 3 /\ pool_call.returned = 1)
       \/ (Len(pool_call.before) = 1 /\ pool_call.returned = 3)
    /\ Len(pool_call.trace) >= 2

(* C32: the polling loop is entered only with poll_interval_s > 0.         *)
C32_PollIntervalPositive ==
    pc = "loop" => FloatLT(F(0), poll_interval)

(* C33: the burn worker reads its stop flag only at the while test between *)
(* batches of BATCH_ITERATIONS iterations: it starts a batch only with the *)
(* flag unset, leaves a batch only complete, exits only from the test and  *)
(* only with the flag set, so a worker whose flag is set finishes at most  *)
(* the batch in progress; and it does exit then.                           *)
C33_StopsBetweenBatches ==
    /\ [][/\ (burn'.at = "returned" /\ burn.at # "returned") =>
               (burn.at = "while" /\ burn.is_set)
          /\ (burn.at = "while" /\ burn'.at = "for") =>
               (~burn.is_set /\ burn'.i = 0)
          /\ (burn.at = "for" /\ burn'.at # "for") =>
               (burn'.at = "while" /\ burn'.i = BATCH_ITERATIONS)
          /\ (burn.at = "for" /\ burn'.i # burn.i) =>
               (burn'.i > burn.i /\ burn'.i <= BATCH_ITERATIONS)]_vars
    /\ (burn.is_set ~> burn.at = "returned")

C33_Witness ==
    /\ burn.at = "returned"
    /\ burn.set_at = "for"
    /\ burn.i = BATCH_ITERATIONS

(* The evaluated outcomes of an iteration whose read succeeded. *)
Evaluations == {"None", "WarnRaised", "WarnCleared"}

(* C34: after every iteration whose read succeeded without Shutdown,       *)
(* warning_logged is true exactly if that reading is in the warning zone,  *)
(* whatever readings and failures came before.                             *)
C34_WarningFollowsReading ==
    (cycle.read_ok /\ cycle.action \in Evaluations) =>
        (warning_logged <=> InWarningZone(cycle))

C34_Witness ==
    /\ cycle.read_ok
    /\ cycle.action = "None"
    /\ InWarningZone(cycle)
    /\ warning_logged
    /\ shutdown_calls = 0

(* The shutdown condition of the reading observed in iteration c. *)
InShutdownZone(c) ==
    IF kind = "ina219"
    THEN /\ ~(c.current_ma > 0)
         /\ PercentLE(calculate_battery_percent(c.voltage, cell_count),
                      shutdown_threshold)
    ELSE FloatGE(F(c.temperature), shutdown_threshold)

(* C35: an iteration that emits Shutdown leaves warning_logged and the     *)
(* last warning event as they were; so a reading that meets the shutdown   *)
(* condition while no warning is active emits Shutdown, no WarnRaised, and *)
(* the warning is still not active afterwards.                             *)
C35_ShutdownSkipsWarning ==
    [][/\ (pc = "loop" /\ cycle'.action = "Shutdown") =>
              (warning_logged' = warning_logged /\ warn_last' = warn_last)
       /\ (pc = "loop" /\ cycle'.read_ok /\ InShutdownZone(cycle')
           /\ ~warning_logged) =>
              (cycle'.action = "Shutdown" /\ ~warning_logged')]_vars

C35_Witness ==
    /\ cycle.action = "Shutdown"
    /\ cycle.read_ok
    /\ InWarningZone(cycle)
    /\ ~warning_logged
    /\ warn_last = "none"

(* C36: a reading with current_ma = 0 counts as discharging.  In the       *)
(* battery monitor a successful read with current_ma = 0 and percent <=    *)
(* shutdown_battery_percent emits Shutdown; in the benchmark a sample with *)
(* current_ma = 0 and percent <= threshold ends the loop.                  *)
C36_ZeroCurrentIsDischarging ==
    [][/\ (/\ kind = "ina219" /\ pc = "loop"
           /\ cycle'.read_ok /\ cycle'.current_ma = 0
           /\ PercentLE(calculate_battery_percent(cycle'.voltage, cell_count),
                        shutdown_threshold)) =>
              cycle'.action = "Shutdown"
       /\ (/\ runner.pc = "sample" /\ runner'.pc # "sample"
           /\ runner.reading.current_ma = 0
           /\ PercentLE(calculate_battery_percent(runner.reading.voltage,
                                                  DEFAULT_CELL_COUNT),
                        runner.args.threshold)) =>
              (runner'.pc = "finally" /\ runner'.stopped_by = "threshold")]_vars

(* A benchmark run ended by its second sample, read with no current. *)
C36_Witness ==
    /\ runner.stopped_by = "threshold"
    /\ runner.stop_reading.ok
    /\ runner.stop_reading.current_ma = 0
    /\ Len(runner.samples) = 2
    /\ runner.returned = 0

C38_HotJunctionAloneDecides ==
    (kind = "mcp9601" /\ cycle.hot_ok
     /\ FloatGE(F(cycle.temperature), shutdown_threshold)) =>
        cycle.action = "Shutdown"

(* C39: the except clause of the loop runs, and consecutive_failures is    *)
(* counted up, only in iterations whose sensor read failed; an iteration   *)
(* whose read succeeded leaves the counter at 0, logs no escalation, and   *)
(* if it requested the shutdown it does not return to polling.             *)
C39_OnlyReadFailuresCounted ==
    /\ cycle.excepted => (cycle.action = "ReadFailed" /\ ~cycle.read_ok)
    /\ cycle.read_ok => (consecutive_failures = 0 /\ ~cycle.critical)
    /\ (cycle.read_ok /\ cycle.cmd # "none") => pc # "loop"

(* The position of the first operation of the trace on process pid. *)
FirstOp(trace, pid) ==
    CHOOSE n \in DOMAIN trace :
        trace[n].id = pid /\ \A m \in 1..(n - 1) : trace[m].id # pid

(* C40: shutdown sets the stop event of every worker of the pool before it *)
(* joins any of them; a scale-down handles one worker at a time (set, join *)
(* and, if still alive, terminate, before the next worker is touched),     *)
(* the most recently started worker first.                                 *)
C40_StopOrder ==
    LET trace == pool_call.trace
        stops == {n \in DOMAIN trace : trace[n].op # "start"}
    IN  /\ pool_call.op = "shutdown" =>
              /\ \A n \in DOMAIN pool_call.before :
                     trace[n] = Op("set", pool_call.before[n])
              /\ \A n \in DOMAIN trace :
                     n > Len(pool_call.before) => trace[n].op \in {"join", "terminate"}
        /\ pool_call.op = "set_worker_count" =>
              /\ \A m \in stops, n \in stops :
                     (m < n /\ trace[m].id # trace[n].id) =>
                         trace[m].id > trace[n].id
              /\ \A n \in stops :
                     LET f == FirstOp(trace, trace[n].id)
                     IN  /\ trace[f].op = "set"
                         /\ n > f => trace[n].op \in {"join", "terminate"}
                         /\ n > f + 1 => (n = f + 2 /\ trace[n].op = "terminate")
                         /\ (f + 1) \in DOMAIN trace
                         /\ trace[f + 1] = Op("join", trace[n].id)
              /\ {trace[n].id : n \in stops} =
                     Range(pool_call.before) \ Range(workers)

(* A shutdown of three workers, one of which had to be terminated. *)
C40_Witness ==
    /\ pool_call.op = "shutdown"
    /\ Len(pool_call.before) = 3
    /\ Len(pool_call.trace) = 7
    /\ pool_call.trace[3].op = "set"
    /\ pool_call.trace[4].op = "join"

====
